---- MODULE Spec2Model ----
(***************************************************************************)
(* Weather Station dashboard (src/main.py): a Flask application over one   *)
(* MongoDB collection of temperature readings, and the polling script of   *)
(* the page it renders.                                                    *)
(*                                                                         *)
(* Units.  Time is counted in minutes; temperatures in hundredths of a     *)
(* degree Fahrenheit, so that the "%.2f" formatting of the code is a       *)
(* rounding to an integer.  Text (query parameters, form fields, ISO       *)
(* timestamps, the rendered page constants) is a sequence of code units.   *)
(* An optional value (Python None / a missing key / JSON null) is the      *)
(* empty sequence, a present value v is <<v>>.                             *)
(***************************************************************************)
EXTENDS Integers, Sequences, FiniteSets, Bags, TLC

VARIABLES
    db,            \* the documents of Weather.Temp, a bag of documents
    mongo_client,  \* module global mongo_client: "None" or "client"
    collection,    \* module global collection:   "None" or "coll"
    page,          \* the page shown in the browser: the constants its script was rendered with
    emptied,       \* history: Some(n) when delete_many({}) removed n documents and nothing was inserted since
    last           \* the request being answered and its response; NoRequest between requests

vars == <<db, mongo_client, collection, page, emptied, last>>

-----------------------------------------------------------------------------
(* Program constants *)

DEFAULT_HOURS == 24
ALLOWED_HOURS == {1, 3, 6, 12, 24, 48, 72}
Y_AXIS_PADDING == 2
ROLLING_AVG_WINDOW == 5
MinutesPerHour == 60
MinutesPerDay == 1440
NycUtcOffset == 300

\* CLEAR_DATA_PASSWORD as loaded from the environment: "pw"
CLEAR_DATA_PASSWORD == <<112, 119>>

-----------------------------------------------------------------------------
(* Bounds of the model *)

MaxDocs == 3      \* documents in the collection at any time
MaxDays == 1      \* largest days_old submitted as a plain decimal

\* The instant around which the modelled readings lie.
Now0 == MinutesPerDay + 15 * MinutesPerHour

\* The values datetime.now() may return to a request.
NowSet == {Now0, Now0 + 1}

-----------------------------------------------------------------------------
(* Optional values and text *)

None == <<>>
Some(v) == <<v>>
IsNone(o) == o = <<>>
Get(o) == o[1]

Digit(c) == c \in 48..57
IsSpace(c) == c \in {32, 9, 10}

RECURSIVE DigitsValue(_)
DigitsValue(s) ==
    IF s = <<>> THEN 0
    ELSE 10 * DigitsValue(SubSeq(s, 1, Len(s) - 1)) + (s[Len(s)] - 48)

RECURSIVE LStrip(_)
LStrip(s) == IF s # <<>> /\ IsSpace(s[1]) THEN LStrip(Tail(s)) ELSE s

RECURSIVE RStrip(_)
RStrip(s) ==
    IF s # <<>> /\ IsSpace(s[Len(s)]) THEN RStrip(SubSeq(s, 1, Len(s) - 1)) ELSE s

\* Python int(text): surrounding whitespace, an optional sign, decimal digits;
\* None stands for the ValueError it raises on anything else.
PyInt(text) ==
    LET s == RStrip(LStrip(text))
        signed == s # <<>> /\ s[1] \in {43, 45}
        body == IF signed THEN Tail(s) ELSE s
    IN  IF body = <<>> \/ \E i \in 1..Len(body) : ~Digit(body[i]) THEN None
        ELSE IF signed /\ s[1] = 45 THEN Some(0 - DigitsValue(body))
        ELSE Some(DigitsValue(body))

\* str.lower() on the letters that occur
Lower(s) == [i \in 1..Len(s) |-> IF s[i] \in 65..90 THEN s[i] + 32 ELSE s[i]]

RECURSIVE NatToStr(_)
NatToStr(n) ==
    IF n < 10 THEN <<48 + n>> ELSE NatToStr(n \div 10) \o <<48 + (n % 10)>>

\* Zero-padded decimal of fixed width, as every field of datetime.isoformat() is.
RECURSIVE PadLeft(_, _)
PadLeft(s, w) == IF Len(s) >= w THEN s ELSE PadLeft(<<48>> \o s, w)

\* JavaScript's a > b on strings: lexicographic on code units, a proper prefix is smaller.
RECURSIVE JsStrGreater(_, _)
JsStrGreater(a, b) ==
    IF a = <<>> THEN FALSE
    ELSE IF b = <<>> THEN TRUE
    ELSE IF a[1] # b[1] THEN a[1] > b[1]
    ELSE JsStrGreater(Tail(a), Tail(b))

StrTrue == <<116, 114, 117, 101>>     \* "true"
StrNone == <<78, 111, 110, 101>>      \* "None", what Jinja renders for None

\* datetime.isoformat(): fixed-width, zero-padded decimal fields
IsoFormat(t) == PadLeft(NatToStr(t), 4)

\* f"{x:.2f}" of the quotient num/den (den > 0) of two integers counted in
\* hundredths: the nearest integer, a tie going to the even one.
Fmt2(num, den) ==
    LET q == num \div den
        r == num % den
    IN  IF 2 * r < den THEN q
        ELSE IF 2 * r > den THEN q + 1
        ELSE IF q % 2 = 0 THEN q ELSE q + 1

\* math.floor and math.ceil of x hundredths, in whole units
Floor100(x) == x \div 100
Ceil100(x) == 0 - ((0 - x) \div 100)

Max2(a, b) == IF a >= b THEN a ELSE b

-----------------------------------------------------------------------------
(* Documents of the collection *)

\* A document: its "timestamp" and its "average_temp_f", each None when the
\* key is missing.  A present timestamp is a date, a present average_temp_f a
\* number (a value of another type is dropped by the same dropna as a missing
\* one and is not modelled apart).
Doc(ts, temp) == [ts |-> ts, temp |-> temp]
Reading(t, v) == Doc(Some(t), Some(v))

\* The documents the sensor side may insert: readings one day and five minutes
\* before Now0, two one minute before Now0 and one at Now0, a document without
\* timestamp and one without average_temp_f.
CandDocs ==
    { Reading(Now0 - MinutesPerDay, 7000),
      Reading(Now0 - 5, 0 - 50),
      Reading(Now0 - 1, 7050),
      Reading(Now0 - 1, 7000),
      Reading(Now0, 7000),
      Doc(None, Some(7000)),
      Doc(Some(Now0), None) }

HasTs(d) == ~IsNone(d.ts)
HasNumericTemp(d) == ~IsNone(d.temp)

\* number of documents of a bag
Size(B) == BagCardinality(B)

\* the sub-bag of the documents satisfying keep
Restrict(B, keep(_)) == [d \in {x \in DOMAIN B : keep(x)} |-> B[d]]

\* Mutant of FindSince: "$gt" in place of "$gte".
FindSince_Gt(B, start) ==
    [d \in {x \in DOMAIN B : ~IsNone(x.ts) /\ Get(x.ts) > start} |-> B[d]]

\* coll.find({"timestamp": {"$gte": start}}): a comparison with a date matches
\* only documents whose timestamp is present (and a date).
FindSince(B, start) ==
    LET match(d) == HasTs(d) /\ Get(d.ts) >= start
    IN  Restrict(B, match)

\* Mutant of FindOneLatest: the sort is ascending.
FindOneLatest_Ascending(B) ==
    IF DOMAIN B = {} THEN {None}
    ELSE IF \E d \in DOMAIN B : IsNone(d.ts)
    THEN {Some(d) : d \in {x \in DOMAIN B : IsNone(x.ts)}}
    ELSE {Some(d) : d \in {x \in DOMAIN B :
                            \A y \in DOMAIN B : Get(y.ts) >= Get(x.ts)}}

\* coll.find_one(sort=[("timestamp", DESCENDING)]): the results the server may
\* give.  A missing timestamp sorts below every date; equal keys come in any order.
FindOneLatest(B) ==
    IF DOMAIN B = {} THEN {None}
    ELSE IF \E d \in DOMAIN B : HasTs(d)
    THEN {Some(d) : d \in {x \in DOMAIN B : HasTs(x) /\
                            \A y \in DOMAIN B : HasTs(y) => Get(y.ts) <= Get(x.ts)}}
    ELSE {Some(d) : d \in DOMAIN B}

\* Mutant of DeleteAll: the filter matches only documents that carry a timestamp.
DeleteAll_TimestampedOnly(B) == [d \in {x \in DOMAIN B : IsNone(x.ts)} |-> B[d]]

\* coll.delete_many({}): what is left
DeleteAll(B) == EmptyBag

\* Mutant of DeleteOlder: "$lte" in place of "$lt".
DeleteOlder_Lte(B, cutoff) ==
    [d \in {x \in DOMAIN B : ~(~IsNone(x.ts) /\ Get(x.ts) <= cutoff)} |-> B[d]]

\* coll.delete_many({"timestamp": {"$lt": cutoff}}): what is left
DeleteOlder(B, cutoff) ==
    LET keep(d) == ~(HasTs(d) /\ Get(d.ts) < cutoff)
    IN  Restrict(B, keep)

-----------------------------------------------------------------------------
(* connect_db *)

\* Mutant of connect_db: a failed ping leaves the client it was sent through.
connect_db_KeepsClient(up) ==
    IF collection # "None"
    THEN [mongo_client |-> mongo_client, coll |-> collection, pinged |-> FALSE]
    ELSE IF mongo_client = "None"
    THEN IF up
         THEN [mongo_client |-> "client", coll |-> "coll", pinged |-> TRUE]
         ELSE [mongo_client |-> "client", coll |-> "None", pinged |-> TRUE]
    ELSE [mongo_client |-> mongo_client, coll |-> "coll", pinged |-> FALSE]

\* connect_db(), given whether the server answers the ping: the new globals,
\* whether a ping was sent, and (coll) the value returned.
connect_db(up) ==
    IF collection # "None"
    THEN [mongo_client |-> mongo_client, coll |-> collection, pinged |-> FALSE]
    ELSE IF mongo_client = "None"
    THEN IF up
         THEN [mongo_client |-> "client", coll |-> "coll", pinged |-> TRUE]
         ELSE [mongo_client |-> "None", coll |-> "None", pinged |-> TRUE]
    ELSE [mongo_client |-> mongo_client, coll |-> "coll", pinged |-> FALSE]

-----------------------------------------------------------------------------
(* index: the statistics of the fetched rows *)

\* convert_to_nyc_time: the same instant on New York's clock
convert_to_nyc_time(ts) == IF IsNone(ts) THEN None ELSE Some(Get(ts) - NycUtcOffset)

\* strftime('%I:%M %p'): the time of day, the date is dropped
StrfTime(t) == t % MinutesPerDay

RECURSIVE Orderings(_)
\* list(cursor.sort("timestamp", ASCENDING)) followed by df.sort_values('time_nyc'):
\* the documents in ascending time, documents of equal time in any order.
Orderings(B) ==
    IF DOMAIN B = {} THEN {<<>>}
    ELSE LET first == {d \in DOMAIN B : \A e \in DOMAIN B : Get(d.ts) <= Get(e.ts)}
         IN  UNION { {<<d>> \o s : s \in Orderings(B (-) SetToBag({d}))} : d \in first }

\* to_numeric(errors='coerce') and dropna, then the time_nyc column
CleanRows(data) ==
    LET valid == SelectSeq(data, HasNumericTemp)
    IN  [i \in 1..Len(valid) |->
            [time_nyc |-> Get(convert_to_nyc_time(valid[i].ts)), temp |-> Get(valid[i].temp)]]

RECURSIVE SumTemps(_, _, _)
\* sum of the temperatures of rows[lo..hi]
SumTemps(rows, lo, hi) ==
    IF lo > hi THEN 0 ELSE rows[hi].temp + SumTemps(rows, lo, hi - 1)

MinTemp(rows) == CHOOSE v \in {rows[i].temp : i \in 1..Len(rows)} :
                    \A i \in 1..Len(rows) : v <= rows[i].temp
MaxTemp(rows) == CHOOSE v \in {rows[i].temp : i \in 1..Len(rows)} :
                    \A i \in 1..Len(rows) : v >= rows[i].temp

\* Series.rolling(window='5min', min_periods=1).mean() at row i, as <<sum, count>>:
\* the window of row i ends at row i and starts at the first row j <= i whose
\* time is later than time(i) - 5 minutes.
RollingStart(rows, i) ==
    CHOOSE j \in 1..i :
        /\ rows[j].time_nyc > rows[i].time_nyc - ROLLING_AVG_WINDOW
        /\ \A k \in 1..(j - 1) : ~(rows[k].time_nyc > rows[i].time_nyc - ROLLING_AVG_WINDOW)

Rolling(rows, i) ==
    LET j == RollingStart(rows, i)
    IN  <<SumTemps(rows, j, i), i - j + 1>>

\* comparison of two means given as <<sum, count>>
MeanLess(a, b) == a[1] * b[2] < b[1] * a[2]

\* Series.idxmax(): the position of the first maximum
IdxMax(rows) ==
    CHOOSE i \in 1..Len(rows) :
        /\ \A k \in 1..Len(rows) : ~MeanLess(Rolling(rows, i), Rolling(rows, k))
        /\ \A k \in 1..(i - 1) : MeanLess(Rolling(rows, k), Rolling(rows, i))

\* rolling_series.loc[t] is a scalar only when t labels one row; on several rows
\* it is a Series, and "if pd.notna(Series)" raises ValueError.
LocIsScalar(rows, t) == Cardinality({i \in 1..Len(rows) : rows[i].time_nyc = t}) = 1

\* Y-axis padding and range calculation
YAxisRange(min_temp, max_temp) ==
    LET lo1 == Floor100(min_temp - 100 * Y_AXIS_PADDING)
        hi1 == Ceil100(max_temp + 100 * Y_AXIS_PADDING)
        lo2 == IF min_temp = max_temp
               THEN Floor100(min_temp - 100 * Max2(Y_AXIS_PADDING, 1)) ELSE lo1
        hi2 == IF min_temp = max_temp
               THEN Ceil100(max_temp + 100 * Max2(Y_AXIS_PADDING, 1)) ELSE hi1
        lo3 == IF lo2 >= hi2 THEN (IF hi2 > 0 THEN hi2 - 1 ELSE 0 - 1) ELSE lo2
        hi3 == IF lo2 >= hi2 THEN lo3 + 1 ELSE hi2
    IN  <<lo3, hi3>>

NoPanels ==
    [stats |-> None, current_rolling_avg |-> None, highest_rolling_avg_period |-> None,
     highest_rolling_avg_time |-> None, y_axis_range |-> None, graph |-> FALSE,
     raised |-> FALSE]

\* The body of "if data:" for the fetched documents in the order they arrive.
Panels(data) ==
    IF data = <<>> THEN NoPanels
    ELSE IF \A i \in 1..Len(data) : IsNone(data[i].temp)
    THEN [NoPanels EXCEPT !.raised = TRUE]       \* df['average_temp_f']: KeyError
    ELSE LET rows == CleanRows(data)
             n == Len(rows)
         IN  IF n = 0 THEN NoPanels
             ELSE LET min_temp == MinTemp(rows)
                      max_temp == MaxTemp(rows)
                      stats == [min_f |-> Fmt2(min_temp, 1),
                                avg_f |-> Fmt2(SumTemps(rows, 1, n), n),
                                max_f |-> Fmt2(max_temp, 1)]
                      m == IdxMax(rows)
                  IN  IF ~LocIsScalar(rows, rows[n].time_nyc)
                      THEN [NoPanels EXCEPT !.stats = Some(stats), !.raised = TRUE]
                      ELSE [stats |-> Some(stats),
                            current_rolling_avg |->
                                Some(Fmt2(Rolling(rows, n)[1], Rolling(rows, n)[2])),
                            highest_rolling_avg_period |->
                                Some(Fmt2(Rolling(rows, m)[1], Rolling(rows, m)[2])),
                            highest_rolling_avg_time |-> Some(StrfTime(rows[m].time_nyc)),
                            y_axis_range |-> Some(YAxisRange(min_temp, max_temp)),
                            graph |-> TRUE,
                            raised |-> FALSE]

-----------------------------------------------------------------------------
(* Requests: the values a client may send *)

Str1 == <<49>>                     \* "1"
StrSp72 == <<32, 55, 50>>          \* " 72"
Str5 == <<53>>                     \* "5"
StrX == <<120>>                    \* "x"
StrTrueCap == <<84, 114, 117, 101>>  \* "True"
StrFalse == <<102, 97, 108, 115, 101>>  \* "false"

\* ?hours=... of a '/' request (None: the parameter is absent)
HoursArgs == {None, Some(Str1), Some(StrSp72), Some(Str5), Some(StrX)}
\* ?autorefresh=...
AutoArgs == {None, Some(StrTrueCap)}
\* the form field clear_data_password: absent, "", "pw", "pW"
PasswordArgs == {None, Some(<<>>), Some(CLEAR_DATA_PASSWORD), Some(<<112, 87>>)}
\* the form field days_old: absent, "0", "1", .., MaxDays, "-1", "x"
DaysArgs ==
    {None, Some(<<45, 49>>), Some(StrX)} \cup {Some(NatToStr(n)) : n \in 0..MaxDays}
\* the query string of a POST to /delete_old_data: <<hours, autorefresh>>
DeleteQueries == {<<None, None>>, <<Some(Str1), Some(StrTrue)>>}

-----------------------------------------------------------------------------
(* The page in the browser *)

\* the greatest timestamp of the collection, None when no document has one
MaxTimestamp(B) ==
    IF \E d \in DOMAIN B : ~IsNone(d.ts)
    THEN Some(CHOOSE t \in {Get(d.ts) : d \in {x \in DOMAIN B : ~IsNone(x.ts)}} :
                \A d \in DOMAIN B : ~IsNone(d.ts) => Get(d.ts) <= t)
    ELSE None

\* What the script of a rendered page holds: autoRefreshEnabled,
\* currentPageTimestampISO ("{{ latest_doc_timestamp_iso | safe }}": None is
\* rendered as the text None), hoursSelect.value; reloading: location.search
\* was assigned.  latest_at_render is history: the greatest timestamp the
\* collection held when the page was rendered.
ScriptState(autorefresh_enabled, latest_doc_timestamp, selected_hours, latest_at_render) ==
    [autoRefreshEnabled |-> autorefresh_enabled,
     currentPageTimestampISO |->
        IF IsNone(latest_doc_timestamp) THEN StrNone
        ELSE IsoFormat(Get(latest_doc_timestamp)),
     hours |-> selected_hours,
     latest_at_render |-> latest_at_render,
     reloading |-> FALSE]

\* No interval timer runs: no dashboard page is open (nothing loaded yet, or the
\* browser left the page), or the page was rendered with autoRefreshEnabled false.
NoPage == ScriptState(FALSE, None, DEFAULT_HOURS, None)

\* The page after a render: its script only acts when autoRefreshEnabled.
RenderPage(autorefresh_enabled, latest_doc_timestamp, selected_hours, latest_at_render) ==
    IF autorefresh_enabled
    THEN ScriptState(TRUE, latest_doc_timestamp, selected_hours, latest_at_render)
    ELSE NoPage

NoRequest == [kind |-> "none"]

-----------------------------------------------------------------------------
(* index *)

\* Mutant of HoursToShow: the parsed value is not checked against ALLOWED_HOURS.
HoursToShow_Unchecked(hours_arg) ==
    LET parsed == IF IsNone(hours_arg) THEN Some(DEFAULT_HOURS) ELSE PyInt(Get(hours_arg))
    IN  IF IsNone(parsed)
        THEN [hours |-> DEFAULT_HOURS, flashes |-> {"invalid_format"}]
        ELSE [hours |-> Get(parsed), flashes |-> {}]

\* hours_to_show and the flash of lines 370-377
HoursToShow(hours_arg) ==
    LET parsed == IF IsNone(hours_arg) THEN Some(DEFAULT_HOURS) ELSE PyInt(Get(hours_arg))
    IN  IF IsNone(parsed)
        THEN [hours |-> DEFAULT_HOURS, flashes |-> {"invalid_format"}]
        ELSE IF Get(parsed) \notin ALLOWED_HOURS
        THEN [hours |-> DEFAULT_HOURS, flashes |-> {"invalid_range"}]
        ELSE [hours |-> Get(parsed), flashes |-> {}]

\* autorefresh_enabled of line 379
AutoRefreshEnabled(auto_arg) ==
    Lower(IF IsNone(auto_arg) THEN StrFalse ELSE Get(auto_arg)) = StrTrue

\* latest_reading_data of lines 398-406 for the document find_one returned
LatestReading(latest) ==
    IF IsNone(latest) THEN None
    ELSE LET d == Get(latest)
             t == convert_to_nyc_time(d.ts)
         IN  Some([temp_f |-> IF HasNumericTemp(d) THEN Some(Fmt2(Get(d.temp), 1)) ELSE None,
                   time_nyc |-> IF IsNone(t) THEN None ELSE Some(StrfTime(Get(t))),
                   timestamp_utc_iso |-> IF HasTs(d) THEN Some(IsoFormat(Get(d.ts))) ELSE None])

\* latest_doc_timestamp_iso of lines 394-396, before isoformat()
LatestTimestamp(latest) ==
    IF ~IsNone(latest) /\ HasTs(Get(latest)) THEN Get(latest).ts ELSE None

\* Mutant of IndexNoDb: the hours parameter is honoured on the failure page.
IndexNoDb_KeepsHours(hours_arg, pinged) ==
    [kind |-> "index", connected |-> FALSE, pinged |-> pinged, hours_arg |-> hours_arg,
     selected_hours |-> HoursToShow(hours_arg).hours, autorefresh_enabled |-> FALSE,
     now |-> None, start_time_utc |-> None, flashes |-> {"db_failed"}, fail |-> "no",
     latest_doc |-> None, latest_reading |-> None, latest_doc_timestamp_iso |-> None,
     panels |-> NoPanels]

\* The response of '/' when connect_db() returned None (lines 362-368).
IndexNoDb(hours_arg, pinged) ==
    [kind |-> "index", connected |-> FALSE, pinged |-> pinged, hours_arg |-> hours_arg,
     selected_hours |-> DEFAULT_HOURS, autorefresh_enabled |-> FALSE,
     now |-> None, start_time_utc |-> None, flashes |-> {"db_failed"}, fail |-> "no",
     latest_doc |-> None, latest_reading |-> None, latest_doc_timestamp_iso |-> None,
     panels |-> NoPanels]

\* The response of '/' with a collection (lines 370-515): fail names the query
\* that raised ("no": none), latest is what find_one returned, data what find returned.
IndexView(hours_arg, auto_arg, now, pinged, fail, latest, data) ==
    LET h == HoursToShow(hours_arg)
        got_latest == IF fail = "find_one" THEN None ELSE latest
        panels == IF fail = "no" THEN Panels(data) ELSE NoPanels
        raised == fail # "no" \/ panels.raised
    IN  [kind |-> "index", connected |-> TRUE, pinged |-> pinged, hours_arg |-> hours_arg,
         selected_hours |-> h.hours, autorefresh_enabled |-> AutoRefreshEnabled(auto_arg),
         now |-> Some(now),
         start_time_utc |-> Some(now - MinutesPerHour * h.hours),
         flashes |-> h.flashes \cup (IF raised THEN {"processing_error"} ELSE {}),
         fail |-> fail,
         latest_doc |-> got_latest,
         latest_reading |-> LatestReading(got_latest),
         latest_doc_timestamp_iso |->
            IF IsNone(LatestTimestamp(got_latest)) THEN None
            ELSE Some(IsoFormat(Get(LatestTimestamp(got_latest)))),
         panels |-> panels]

\* GET /?hours=..&autorefresh=.. : the handler given what the queries return
IndexRequest(hours_arg, auto_arg, now, up, fail, latest, data) ==
    LET c == connect_db(up)
    IN  /\ mongo_client' = c.mongo_client
        /\ collection' = c.coll
        /\ UNCHANGED <<db, emptied>>
        /\ IF c.coll = "None"
           THEN /\ fail = "no"
                /\ last' = IndexNoDb(hours_arg, c.pinged)
                /\ page' = NoPage
           ELSE LET view == IndexView(hours_arg, auto_arg, now, c.pinged, fail, latest, data)
                IN  /\ last' = view
                    /\ page' = RenderPage(view.autorefresh_enabled,
                                          LatestTimestamp(view.latest_doc),
                                          view.selected_hours, MaxTimestamp(db))

\* what coll.find(...).sort(...) of lines 408-412 may return at time now
FindWindow(hours_arg, now) ==
    Orderings(FindSince(db, now - MinutesPerHour * HoursToShow(hours_arg).hours))

index ==
    /\ last = NoRequest
    /\ \E hours_arg \in HoursArgs, now \in NowSet :
       \E latest \in FindOneLatest(db), data \in FindWindow(hours_arg, now) :
       \E auto_arg \in AutoArgs, up \in BOOLEAN, fail \in {"no", "find_one", "find"} :
        /\ (collection # "None" => up)
        /\ IndexRequest(hours_arg, auto_arg, now, up, fail, latest, data)

-----------------------------------------------------------------------------
(* check_latest_data_timestamp *)

\* The response of /check_latest_data_timestamp (lines 519-530) given what
\* connect_db() returned, whether find_one raised, and what it returned.
CheckResponse(coll, failed, latest) ==
    IF coll = "None" \/ failed
    THEN [status |-> 500, error |-> TRUE, latest_timestamp_utc_iso |-> None]
    ELSE [status |-> 200, error |-> FALSE,
          latest_timestamp_utc_iso |->
             IF IsNone(LatestTimestamp(latest)) THEN None
             ELSE Some(IsoFormat(Get(LatestTimestamp(latest))))]

\* GET /check_latest_data_timestamp typed into the browser: the dashboard page is left.
check_latest_data_timestamp ==
    /\ last = NoRequest
    /\ \E up \in BOOLEAN, failed \in BOOLEAN, latest \in FindOneLatest(db) :
        LET c == connect_db(up)
        IN  /\ (collection # "None" => up)
            /\ (c.coll = "None" => ~failed)
            /\ mongo_client' = c.mongo_client
            /\ collection' = c.coll
            /\ last' = [kind |-> "check", connected |-> c.coll # "None", pinged |-> c.pinged,
                        response |-> CheckResponse(c.coll, failed, latest)]
            /\ page' = NoPage
            /\ UNCHANGED <<db, emptied>>

-----------------------------------------------------------------------------
(* The script of the page: checkForNewData *)

\* The condition of line 332 on a response without "error".
ShouldReload(latest_timestamp_utc_iso, currentPageTimestampISO) ==
    /\ ~IsNone(latest_timestamp_utc_iso)
    /\ Get(latest_timestamp_utc_iso) # <<>>
    /\ currentPageTimestampISO # <<>>
    /\ JsStrGreater(Get(latest_timestamp_utc_iso), currentPageTimestampISO)

\* One firing of the 60 s interval timer, which exists only when the page was
\* rendered with autoRefreshEnabled: the fetch (which may fail in the network),
\* the server's handling of it, and the decision to reload.
checkForNewData ==
    /\ last = NoRequest
    /\ page.autoRefreshEnabled
    /\ ~page.reloading
    /\ \E up \in BOOLEAN, failed \in BOOLEAN, fetched \in BOOLEAN, latest \in FindOneLatest(db) :
        LET c == connect_db(up)
            r == CheckResponse(c.coll, failed, latest)
            reload == fetched /\ r.status = 200 /\ ~r.error
                      /\ ShouldReload(r.latest_timestamp_utc_iso, page.currentPageTimestampISO)
        IN  /\ (collection # "None" => up)
            /\ (c.coll = "None" => ~failed)
            /\ (~fetched => up /\ ~failed /\ collection # "None")
            /\ mongo_client' = (IF fetched THEN c.mongo_client ELSE mongo_client)
            /\ collection' = (IF fetched THEN c.coll ELSE collection)
            /\ last' = [kind |-> "poll", fetched |-> fetched,
                        connected |-> fetched /\ c.coll # "None",
                        pinged |-> fetched /\ c.pinged,
                        response |-> r, reloaded |-> reload]
            /\ page' = [page EXCEPT !.reloading = reload]
            /\ UNCHANGED <<db, emptied>>

\* The navigation started by "window.location.search = params": '/' is requested
\* with autorefresh=true and hours=hoursSelect.value.
Reload ==
    /\ last = NoRequest
    /\ page.reloading
    /\ \E now \in NowSet :
       \E latest \in FindOneLatest(db), data \in FindWindow(Some(NatToStr(page.hours)), now) :
       \E up \in BOOLEAN, fail \in {"no", "find_one", "find"} :
        /\ (collection # "None" => up)
        /\ IndexRequest(Some(NatToStr(page.hours)), Some(StrTrue), now, up, fail, latest, data)

-----------------------------------------------------------------------------
(* delete_old_data *)

\* Mutant of PasswordCheck: the passwords are compared without regard to case.
PasswordCheck_IgnoreCase(pw_arg) ==
    IF IsNone(pw_arg) \/ Get(pw_arg) = <<>> \/ CLEAR_DATA_PASSWORD = <<>> THEN "missing"
    ELSE IF Lower(Get(pw_arg)) # Lower(CLEAR_DATA_PASSWORD) THEN "invalid"
    ELSE "ok"

\* "not submitted_password or not stored_password", then hmac.compare_digest on
\* the UTF-8 encodings: "missing", "invalid" or "ok"
PasswordCheck(pw_arg) ==
    IF IsNone(pw_arg) \/ Get(pw_arg) = <<>> \/ CLEAR_DATA_PASSWORD = <<>> THEN "missing"
    ELSE IF Get(pw_arg) # CLEAR_DATA_PASSWORD THEN "invalid"
    ELSE "ok"

\* Mutant of RedirectUrl: the redirect always carries the defaults.
RedirectUrl_Defaults(query) ==
    [hours |-> NatToStr(DEFAULT_HOURS), autorefresh |-> StrFalse]

\* redirect_url of lines 535-537: the query of the redirect to '/'
RedirectUrl(query) ==
    [hours |-> IF IsNone(query[1]) THEN NatToStr(DEFAULT_HOURS) ELSE Get(query[1]),
     autorefresh |-> IF IsNone(query[2]) THEN StrFalse ELSE Get(query[2])]

\* Lines 539-588 given what connect_db() returned: the flash, the documents
\* left and the count reported.  failed: delete_many raised.
DeleteOutcome(coll, pw_arg, days_arg, now, failed, docs) ==
    LET keep(flash) == [flash |-> flash, docs |-> docs, deleted_count |-> None]
        days == IF IsNone(days_arg) THEN None ELSE PyInt(Get(days_arg))
    IN  IF coll = "None" THEN keep("db_failed")
        ELSE IF PasswordCheck(pw_arg) = "missing" THEN keep("password_missing")
        ELSE IF PasswordCheck(pw_arg) = "invalid" THEN keep("invalid_password")
        ELSE IF IsNone(days_arg) THEN keep("days_missing")
        ELSE IF IsNone(days) THEN keep("invalid_days")
        ELSE IF Get(days) < 0 THEN keep("negative_days")
        ELSE IF failed THEN keep("delete_error")
        ELSE IF Get(days) = 0
        THEN [flash |-> "deleted_all", docs |-> DeleteAll(docs),
              deleted_count |-> Some(Size(docs) - Size(DeleteAll(docs)))]
        ELSE LET left == DeleteOlder(docs, now - MinutesPerDay * Get(days))
             IN  [flash |-> "deleted_old", docs |-> left,
                  deleted_count |-> Some(Size(docs) - Size(left))]

\* POST /delete_old_data?hours=..&autorefresh=.. with the form fields
delete_old_data ==
    /\ last = NoRequest
    /\ \E query \in DeleteQueries, pw_arg \in PasswordArgs, days_arg \in DaysArgs,
       now \in NowSet, up \in BOOLEAN, failed \in BOOLEAN :
        LET c == connect_db(up)
            out == DeleteOutcome(c.coll, pw_arg, days_arg, now, failed, db)
        IN  /\ (collection # "None" => up)
            /\ (failed => out.flash = "delete_error")
            /\ mongo_client' = c.mongo_client
            /\ collection' = c.coll
            /\ db' = out.docs
            /\ emptied' = IF out.flash = "deleted_all" THEN out.deleted_count ELSE emptied
            /\ last' = [kind |-> "delete", connected |-> c.coll # "None", pinged |-> c.pinged,
                        pw_arg |-> pw_arg, days_arg |-> days_arg, now |-> now,
                        before |-> db, flash |-> out.flash,
                        deleted_count |-> out.deleted_count,
                        redirect |-> RedirectUrl(query), query |-> query]
            /\ page' = NoPage

-----------------------------------------------------------------------------
(* The sensor side *)

\* A reading is stored by the station (not part of this program).
Insert ==
    \E d \in CandDocs :
        /\ last = NoRequest
        /\ Size(db) < MaxDocs
        /\ db' = db (+) SetToBag({d})
        /\ emptied' = None
        /\ UNCHANGED <<mongo_client, collection, page, last>>

\* The response has been sent: the request is over.
Respond ==
    /\ last # NoRequest
    /\ last' = NoRequest
    /\ UNCHANGED <<db, mongo_client, collection, page, emptied>>

-----------------------------------------------------------------------------
(* Specification *)

\* The globals are None after import (lines 47-49); started as a script, the
\* server runs only after the connect_db() of line 592 returned a collection.
Init ==
    /\ db = EmptyBag
    /\ \/ mongo_client = "None" /\ collection = "None"
       \/ mongo_client = "client" /\ collection = "coll"
    /\ page = NoPage
    /\ emptied = None
    /\ last = NoRequest

Next ==
    \/ index
    \/ check_latest_data_timestamp
    \/ delete_old_data
    \/ checkForNewData
    \/ Reload
    \/ Insert
    \/ Respond

Spec == Init /\ [][Next]_vars

-----------------------------------------------------------------------------
(* Properties *)

IsIndex == last.kind = "index"
IsDelete == last.kind = "delete"

\* the copies of document d in bag B
Copies(d, B) == IF d \in DOMAIN B THEN B[d] ELSE 0

\* The password a /delete_old_data request must carry: non-empty and equal to
\* the configured one.
RightPassword(pw_arg) ==
    pw_arg = Some(CLEAR_DATA_PASSWORD) /\ CLEAR_DATA_PASSWORD # <<>>

\* C1: in every step, documents leave the collection only when the step is a
\* /delete_old_data request that carries the right password; and a
\* /delete_old_data request with a missing, empty or different password leaves
\* the collection as it was, whatever its days_old.
C1_PasswordGate ==
    [][ /\ (\E d \in DOMAIN db : Copies(d, db') < Copies(d, db))
            => (last'.kind = "delete" /\ RightPassword(last'.pw_arg))
        /\ (last'.kind = "delete" /\ last.kind = "none" /\ ~RightPassword(last'.pw_arg))
            => db' = db ]_vars

\* C1 witness: a request with the password "pW" and days_old = 0 was answered
\* on a non-empty collection, which it left alone.
C1_Witness ==
    /\ IsDelete
    /\ last.pw_arg = Some(<<112, 87>>)
    /\ last.days_arg = Some(<<48>>)
    /\ last.before # EmptyBag
    /\ db = last.before

\* A /delete_old_data request with the right password and days_old = n that
\* reached delete_many, and delete_many returned.
DeletedWith(n) ==
    /\ IsDelete
    /\ last.connected
    /\ RightPassword(last.pw_arg)
    /\ last.days_arg = Some(NatToStr(n))
    /\ last.flash # "delete_error"

\* C2: a /delete_old_data request with the right password and days_old = N > 0
\* removes exactly the documents whose timestamp is earlier than now - N days
\* (a document at the cutoff or later, or without timestamp, keeps all its
\* copies), and reports the number of documents removed.
C2_DeleteOlderExact ==
    \A n \in 1..MaxDays :
        DeletedWith(n) =>
            LET cutoff == last.now - n * MinutesPerDay
            IN  /\ \A d \in DOMAIN last.before \cup DOMAIN db :
                     Copies(d, db) =
                        IF d.ts # None /\ d.ts[1] < cutoff THEN 0 ELSE Copies(d, last.before)
                /\ last.flash = "deleted_old"
                /\ last.deleted_count = Some(BagCardinality(last.before) - BagCardinality(db))

\* C2 witness: one document was removed and another one kept.
C2_Witness ==
    /\ DeletedWith(1)
    /\ last.deleted_count = Some(1)
    /\ db # EmptyBag

\* C3: a /delete_old_data request with the right password and days_old = 0
\* leaves the collection empty and reports every document as removed; as long
\* as nothing is inserted afterwards, '/' shows no latest reading and no
\* statistics and /check_latest_data_timestamp answers a null timestamp.
C3_DeleteAll ==
    /\ DeletedWith(0) =>
          /\ db = EmptyBag
          /\ last.flash = "deleted_all"
          /\ last.deleted_count = Some(BagCardinality(last.before))
          /\ emptied = last.deleted_count
    /\ (emptied # None /\ IsIndex /\ last.connected /\ last.fail = "no") =>
          /\ last.latest_reading = None
          /\ last.panels.stats = None
          /\ ~last.panels.graph
    /\ (emptied # None /\ last.kind = "check" /\ last.response.status = 200) =>
          last.response.latest_timestamp_utc_iso = None

\* C3 witness: '/' was answered after a delete-all that removed at least two
\* documents, one of them without a timestamp.
C3_Witness ==
    /\ emptied # None
    /\ emptied[1] >= 2
    /\ IsIndex
    /\ last.connected
    /\ last.fail = "no"
    /\ last.latest_reading = None

\* C4: the selected_hours of every '/' response is in ALLOWED_HOURS; when the
\* request reaches the parameter handling (connect_db returned a collection),
\* the query starts selected_hours before now, an absent hours gives 24 and no
\* flash about the time range, an hours that is an integer of the list is used
\* as given without such a flash, and any other hours gives 24 with a warning.
C4_HoursNormalised ==
    IsIndex =>
        /\ last.selected_hours \in ALLOWED_HOURS
        /\ last.connected =>
            LET warned == last.flashes \cap {"invalid_range", "invalid_format"} # {}
                asInt == IF last.hours_arg = None THEN None ELSE PyInt(last.hours_arg[1])
            IN  /\ last.start_time_utc = Some(last.now[1] - MinutesPerHour * last.selected_hours)
                /\ last.hours_arg = None => (last.selected_hours = 24 /\ ~warned)
                /\ (asInt # None /\ asInt[1] \in ALLOWED_HOURS)
                      => (last.selected_hours = asInt[1] /\ ~warned)
                /\ (last.hours_arg # None /\ (asInt = None \/ asInt[1] \notin ALLOWED_HOURS))
                      => (last.selected_hours = 24 /\ warned)

\* C4 witness: hours=5, an integer outside the list, was answered with 24 and
\* the warning.
C4_Witness ==
    /\ IsIndex
    /\ last.connected
    /\ last.hours_arg = Some(<<53>>)
    /\ last.selected_hours = 24
    /\ "invalid_range" \in last.flashes

\* A '/' request that ran both queries.
Queried == IsIndex /\ last.connected /\ last.fail = "no"

\* The readings of the selected window: the documents with a timestamp not
\* earlier than t0 and a temperature.
ReadingsSince(t0) ==
    [d \in {x \in DOMAIN db : x.ts # None /\ x.temp # None /\ x.ts[1] >= t0} |-> db[d]]

Window == ReadingsSince(last.now[1] - MinutesPerHour * last.selected_hours)

RECURSIVE TempSum(_)
\* the sum of the temperatures of a bag of readings
TempSum(B) ==
    IF DOMAIN B = {} THEN 0
    ELSE LET d == CHOOSE x \in DOMAIN B : TRUE
         IN  B[d] * d.temp[1] + TempSum([x \in DOMAIN B \ {d} |-> B[x]])

\* a is the quotient num/den rounded to the nearest integer
Rounds(a, num, den) ==
    /\ 2 * (a * den - num) <= den
    /\ 2 * (num - a * den) <= den

\* C5: on a '/' request that ran its queries, stats is absent exactly when the
\* window holds no reading (a document with timestamp >= now - H hours and a
\* temperature); otherwise min_f and max_f are the least and greatest
\* temperature of the window and avg_f is their mean, to two decimals.
C5_WindowStatistics ==
    Queried =>
        /\ (Window = EmptyBag) <=> (last.panels.stats = None)
        /\ Window # EmptyBag =>
             LET st == last.panels.stats[1]
                 temps == {d.temp[1] : d \in DOMAIN Window}
             IN  /\ st.min_f \in temps /\ \A v \in temps : st.min_f <= v
                 /\ st.max_f \in temps /\ \A v \in temps : st.max_f >= v
                 /\ Rounds(st.avg_f, TempSum(Window), BagCardinality(Window))

\* C5 witness: statistics over two or more readings of different temperature
\* while another reading of the collection lies outside the window.
C5_Witness ==
    /\ Queried
    /\ last.panels.stats # None
    /\ last.panels.stats[1].min_f < last.panels.stats[1].max_f
    /\ \E d \in DOMAIN db : d.ts # None /\ d.temp # None /\ d \notin DOMAIN Window

\* The 5-minute average at time t as the claims define it: <<sum, count>> of the
\* readings of the window with time in (t - 5 minutes, t].
AverageAt(t) ==
    LET B == [d \in {x \in DOMAIN Window :
                        x.ts[1] > t - ROLLING_AVG_WINDOW /\ x.ts[1] <= t} |-> Window[d]]
    IN  <<TempSum(B), BagCardinality(B)>>

WindowTimes == {d.ts[1] : d \in DOMAIN Window}
LatestTime == CHOOSE t \in WindowTimes : \A u \in WindowTimes : u <= t

\* The earliest time of the window at which the 5-minute average is greatest.
PeakTime ==
    CHOOSE t \in WindowTimes :
        /\ \A u \in WindowTimes : ~MeanLess(AverageAt(t), AverageAt(u))
        /\ \A u \in WindowTimes : u < t => MeanLess(AverageAt(u), AverageAt(t))

\* C6 (as claimed): whenever the window holds a reading, 'Current Avg (5m)' is
\* shown and is the mean of the readings within the 5 minutes up to and
\* including the latest reading of the window.
C6_CurrentAverage ==
    (Queried /\ Window # EmptyBag) =>
        /\ last.panels.current_rolling_avg # None
        /\ Rounds(last.panels.current_rolling_avg[1],
                  AverageAt(LatestTime)[1], AverageAt(LatestTime)[2])

\* C6, what the code does: the claim's value is shown when the latest time of
\* the window is carried by one reading; when several readings carry it, the
\* lookup of the current average raises and nothing is shown.
C6_CurrentAverageUnlessTied ==
    (Queried /\ Window # EmptyBag) =>
        IF \E d \in DOMAIN Window : d.ts[1] = LatestTime /\
              (Window[d] > 1 \/ \E e \in DOMAIN Window : e # d /\ e.ts = d.ts)
        THEN last.panels.current_rolling_avg = None /\ last.panels.raised
        ELSE /\ last.panels.current_rolling_avg # None
             /\ Rounds(last.panels.current_rolling_avg[1],
                       AverageAt(LatestTime)[1], AverageAt(LatestTime)[2])

\* C7 (as claimed): whenever the window holds a reading, 'Highest Avg' and its
\* time are shown; the value is the greatest 5-minute average over the readings
\* of the window and the time is that of the earliest reading attaining it.
C7_HighestAverage ==
    (Queried /\ Window # EmptyBag) =>
        /\ last.panels.highest_rolling_avg_period # None
        /\ last.panels.highest_rolling_avg_time # None
        /\ Rounds(last.panels.highest_rolling_avg_period[1],
                  AverageAt(PeakTime)[1], AverageAt(PeakTime)[2])
        /\ last.panels.highest_rolling_avg_time[1] = (PeakTime - NycUtcOffset) % MinutesPerDay

\* C7, what the code does: the claim holds when no two readings of the window
\* carry the same time.
C7_HighestAverageDistinctTimes ==
    (Queried /\ Window # EmptyBag
       /\ \A d \in DOMAIN Window :
            Window[d] = 1 /\ \A e \in DOMAIN Window : e # d => e.ts # d.ts) =>
        /\ last.panels.highest_rolling_avg_period # None
        /\ last.panels.highest_rolling_avg_time # None
        /\ Rounds(last.panels.highest_rolling_avg_period[1],
                  AverageAt(PeakTime)[1], AverageAt(PeakTime)[2])
        /\ last.panels.highest_rolling_avg_time[1] = (PeakTime - NycUtcOffset) % MinutesPerDay

\* The claimed y-axis range for readings whose least and greatest temperature
\* are lo and hi: integers y_min < y_max with y_min <= lo - 2 and
\* y_max >= hi + 2, and [floor(v - 2), ceil(v + 2)] when lo = hi = v.
ClaimedRange(range, lo, hi) ==
    /\ range[1] \in Int /\ range[2] \in Int
    /\ range[1] < range[2]
    /\ 100 * range[1] <= lo - 100 * Y_AXIS_PADDING
    /\ 100 * range[2] >= hi + 100 * Y_AXIS_PADDING
    /\ lo = hi =>
         /\ 100 * (range[1] + 1) > lo - 100 * Y_AXIS_PADDING
         /\ 100 * (range[2] - 1) < hi + 100 * Y_AXIS_PADDING

WindowTemps == {d.temp[1] : d \in DOMAIN Window}
WindowMin == CHOOSE v \in WindowTemps : \A w \in WindowTemps : v <= w
WindowMax == CHOOSE v \in WindowTemps : \A w \in WindowTemps : v >= w

\* C8 (as claimed): for every non-empty set of valid readings the chart has a
\* y-axis range of two integers y_min < y_max with y_min <= min_temp - 2 and
\* y_max >= max_temp + 2, which is [floor(v - 2), ceil(v + 2)] when all
\* readings have the value v.
C8_YAxisRange ==
    (Queried /\ Window # EmptyBag) =>
        /\ last.panels.y_axis_range # None
        /\ ClaimedRange(last.panels.y_axis_range[1], WindowMin, WindowMax)

\* C8, what the code does: the range is the claimed one whenever the rolling
\* average before it did not raise; when it raised there is no chart.
C8_YAxisRangeWhenCharted ==
    (Queried /\ Window # EmptyBag) =>
        IF last.panels.raised
        THEN last.panels.y_axis_range = None /\ ~last.panels.graph
        ELSE /\ last.panels.graph
             /\ last.panels.y_axis_range # None
             /\ ClaimedRange(last.panels.y_axis_range[1], WindowMin, WindowMax)

\* C9: on a '/' request whose find_one did not raise, the latest-reading panel
\* is absent ('No recent data.') exactly when the collection is empty, and
\* otherwise shows the temperature and time of a document of the collection
\* whose timestamp is the greatest of the whole collection, whatever the window.
C9_LatestReading ==
    (IsIndex /\ last.connected /\ last.fail # "find_one") =>
        /\ (last.latest_reading = None) <=> (db = EmptyBag)
        /\ db # EmptyBag =>
             \E d \in DOMAIN db :
                /\ \A e \in DOMAIN db :
                      e.ts # None => d.ts # None /\ e.ts[1] <= d.ts[1]
                /\ last.latest_reading[1].temp_f = d.temp
                /\ last.latest_reading[1].time_nyc =
                      (IF d.ts = None THEN None
                       ELSE Some((d.ts[1] - NycUtcOffset) % MinutesPerDay))

\* C9 witness: the panel shows a reading older than the whole window, so that
\* the statistics are absent, while the collection holds another document.
C9_Witness ==
    /\ Queried
    /\ last.latest_reading # None
    /\ last.latest_doc[1].ts # None
    /\ last.latest_doc[1].ts[1] < last.start_time_utc[1]
    /\ last.panels.stats = None
    /\ \E e \in DOMAIN db : e # last.latest_doc[1]

\* A poll whose fetch got the 200 response of the server.
SuccessfulPoll == last.kind = "poll" /\ last.fetched /\ last.response.status = 200

\* The collection holds a timestamp later than the latest one it held when the
\* page was rendered (any timestamp, when it held none).
NewerThanRendered ==
    /\ MaxTimestamp(db) # None
    /\ (page.latest_at_render = None \/ MaxTimestamp(db)[1] > page.latest_at_render[1])

\* C10 (as claimed): polls happen only on a page with auto-refresh enabled; for
\* a page rendered at any state of the collection, an empty one included, a
\* successful poll reloads the page once a document with a later timestamp has
\* been inserted, and does not reload it when the latest timestamp is unchanged.
C10_AutoRefresh ==
    last.kind = "poll" =>
        /\ page.autoRefreshEnabled
        /\ SuccessfulPoll =>
             /\ NewerThanRendered => last.reloaded
             /\ MaxTimestamp(db) = page.latest_at_render => ~last.reloaded

\* C10, what the code does: a page rendered from a timestamp reloads exactly
\* when the collection holds a later one; a page rendered without one (empty
\* collection) holds the text None and no successful poll ever reloads it.
C10_AutoRefreshFromTimestamp ==
    last.kind = "poll" =>
        /\ page.autoRefreshEnabled
        /\ SuccessfulPoll =>
             IF page.currentPageTimestampISO = StrNone
             THEN ~last.reloaded
             ELSE last.reloaded <=> NewerThanRendered

\* C11: when connect_db() returns None, '/' renders only the 'Database
\* connection failed' flash with selected_hours = 24, auto-refresh off (so the
\* page never polls) and no latest reading, statistics or graph, whatever the
\* collection holds and whatever the parameters; /check_latest_data_timestamp
\* (requested directly or by a poll) answers an error with status 500; and
\* /delete_old_data flashes the connection failure and redirects with the
\* collection unchanged and nothing counted, whatever password was sent.
C11_DatabaseUnreachable ==
    /\ (IsIndex /\ ~last.connected) =>
          /\ last.flashes = {"db_failed"}
          /\ last.selected_hours = DEFAULT_HOURS
          /\ ~last.autorefresh_enabled /\ ~page.autoRefreshEnabled
          /\ last.latest_reading = None /\ last.latest_doc_timestamp_iso = None
          /\ last.panels = NoPanels
    /\ (last.kind = "check" /\ ~last.connected) =>
          /\ last.response.status = 500 /\ last.response.error
          /\ last.response.latest_timestamp_utc_iso = None
    /\ (last.kind = "poll" /\ last.fetched /\ collection = "None") =>
          /\ last.response.status = 500 /\ last.response.error
          /\ ~last.reloaded
    /\ (IsDelete /\ ~last.connected) =>
          /\ last.flash = "db_failed"
          /\ db = last.before
          /\ last.deleted_count = None
          /\ last.redirect = RedirectUrl(last.query)

\* C11 witness: '/' is requested with hours=1 while the collection holds a
\* reading and the database cannot be reached.
C11_Witness ==
    /\ IsIndex /\ ~last.connected
    /\ last.hours_arg = Some(Str1)
    /\ \E d \in DOMAIN db : d.ts # None /\ d.temp # None

\* A second state of C11's case: a delete-all request with the right password
\* while the database cannot be reached and the collection holds documents.
C11_DeleteUnreachable ==
    /\ IsDelete /\ ~last.connected
    /\ RightPassword(last.pw_arg)
    /\ last.days_arg = Some(NatToStr(0))
    /\ db # EmptyBag

\* A request that called connect_db() has been answered.
Called == last.kind \in {"index", "check", "delete"} \/ (last.kind = "poll" /\ last.fetched)

\* C12: collection and mongo_client are None together in every state (a failed
\* attempt resets both); every call made while they are None sends a new ping
\* and returns a collection exactly when the globals are set by it; once
\* collection is set no step changes it or mongo_client, and every later call
\* returns it without pinging; so collection is set only by a call whose ping
\* succeeded.
C12_ConnectionCaching ==
    /\ (collection = "None") <=> (mongo_client = "None")
    /\ [][ /\ (collection' = "None") <=> (mongo_client' = "None")
           /\ collection # "None" =>
                 /\ collection' = collection /\ mongo_client' = mongo_client
                 /\ (last = NoRequest /\ Called') => last'.connected /\ ~last'.pinged
           /\ (collection = "None" /\ last = NoRequest /\ Called') =>
                 /\ last'.pinged
                 /\ last'.connected <=> collection' # "None"
           /\ (collection = "None" /\ collection' # "None") =>
                 Called' /\ last'.pinged /\ last'.connected ]_vars

\* C12 witness: a request is served from the cached collection, without a ping.
C12_Witness ==
    /\ Called /\ last.connected /\ ~last.pinged
    /\ collection = "coll" /\ mongo_client = "client"

\* days_old is absent, not an integer, or negative.
UnusableDays(days_arg) ==
    \/ days_arg = None
    \/ PyInt(days_arg[1]) = None
    \/ PyInt(days_arg[1])[1] < 0

\* C13: a /delete_old_data request with the right password and a days_old that
\* is absent, not an integer or negative leaves the collection unchanged,
\* counts nothing and flashes the matching error or warning; and every
\* /delete_old_data response, whatever its path, is a redirect to '/' in which
\* a 'hours' or 'autorefresh' parameter of the request is carried as sent, and
\* one the request lacked is filled with the value '/' reads as the default.
C13_UnusableDaysAndRedirect ==
    IsDelete =>
        /\ (last.connected /\ RightPassword(last.pw_arg) /\ UnusableDays(last.days_arg)) =>
              /\ db = last.before
              /\ last.deleted_count = None
              /\ last.flash = (IF last.days_arg = None THEN "days_missing"
                               ELSE IF PyInt(last.days_arg[1]) = None THEN "invalid_days"
                               ELSE "negative_days")
        /\ last.flash \in {"db_failed", "password_missing", "invalid_password",
                           "days_missing", "invalid_days", "negative_days",
                           "delete_error", "deleted_all", "deleted_old"}
        /\ IF last.query[1] # None
           THEN last.redirect.hours = last.query[1][1]
           ELSE HoursToShow(Some(last.redirect.hours)) = HoursToShow(None)
        /\ IF last.query[2] # None
           THEN last.redirect.autorefresh = last.query[2][1]
           ELSE AutoRefreshEnabled(Some(last.redirect.autorefresh)) = AutoRefreshEnabled(None)

\* C13 witness: the right password with days_old = -1 on a collection that
\* holds documents, the request carrying hours=1 and autorefresh=true.
C13_Witness ==
    /\ IsDelete /\ last.connected
    /\ RightPassword(last.pw_arg)
    /\ last.days_arg = Some(<<45, 49>>)
    /\ last.flash = "negative_days"
    /\ db # EmptyBag
    /\ last.query = <<Some(Str1), Some(StrTrue)>>
    /\ last.redirect.hours = Str1

====
